---- MODULE Spec2Model ----
(***************************************************************************)
(* Model of ext/hls/gstm3u8playlist.c: the HLS media playlist (a sliding   *)
(* window of segment entries) and the variant (master) playlist registry.  *)
(*                                                                         *)
(* Strings are TLA+ strings; the C NULL pointer of a gchar* is NULL.       *)
(* A gfloat duration is the exact rational duration / DurDen; every sum    *)
(* the model forms is exactly representable in a gfloat.  A GList or a     *)
(* GQueue is a sequence, head first.                                       *)
(***************************************************************************)
EXTENDS Integers, Sequences, FiniteSets, TLC

VARIABLES
  playlist,      \* the GstM3U8Playlist under test
  args,          \* the arguments gst_m3u8_playlist_new was called with
  freed,         \* TRUE once gst_m3u8_playlist_free has run
  refcount,      \* GObject reference count of every GFile
  held,          \* per GFile, references the caller owns through returned lists
  last,          \* the last call on the media playlist and what it returned
  nadded,        \* number of accepted add_entry calls so far
  nevicted,      \* number of entries popped from the queue so far
  inorder,       \* TRUE while every add_entry was given index = nadded
  variants,      \* GstM3U8VariantPlaylist.variants, in table iteration order
  playlist_str,  \* GstM3U8VariantPlaylist.playlist_str (NULL or the text)
  destroyed,     \* variant playlists the registry has freed
  vfreed,        \* TRUE once gst_m3u8_variant_playlist_free has run
  vlast,         \* the last call on the registry and what it returned
  readers,       \* per reader thread, the read-only call it is in and its locals
  call           \* the add_entry call that is executed statement by statement

mvars == <<playlist, args, freed, refcount, held, last, nadded, nevicted, inorder>>
vvars == <<variants, playlist_str, destroyed, vfreed, vlast>>
cvars == <<readers, call>>
vars == <<playlist, args, freed, refcount, held, last, nadded, nevicted, inorder,
          variants, playlist_str, destroyed, vfreed, vlast, readers, call>>

(***************************************************************************)
(* Bounds of the model                                                     *)
(***************************************************************************)
MaxAdds == 3       \* accepted add_entry calls in one behaviour
MaxDur == 2        \* largest entry duration, in units of 1/DurDen
MaxWindow == 2     \* largest window_size
MaxVariants == 3   \* add_variant is called only while fewer are registered
DurDen == 2        \* a duration d stands for the gfloat d / DurDen

(***************************************************************************)
(* Program constants                                                       *)
(***************************************************************************)
GST_M3U8_PLAYLIST_TYPE_EVENT == 0
GST_M3U8_PLAYLIST_TYPE_VOD == 1
GST_SECOND == 1000000000
GST_MSECOND == 1000000

NULL == "<NULL>"
NullList == <<>>                  \* the NULL GList *, which is the empty list
FALSE_AS_POINTER == NullList      \* FALSE returned through a GList *

Files == {"seg1", "seg2"}
PlaylistFile == "m3u8"
AllFiles == Files \cup {PlaylistFile}
Durations == 1..MaxDur
Versions == {2, 3, 4}
(* The (version, chunked) pairs playlists are constructed with: byte ranges *)
(* requested below and at version 4, whole segments at the lowest and the  *)
(* highest version.                                                        *)
Modes == {m \in Versions \X BOOLEAN : m[2] => m[1] # 3}
WindowSizes == 0..MaxWindow
BaseUrls == {"http://h"}
AllowCaches == {TRUE}
Paths == {"a.ts"}
Titles == {NULL}
Segments == {s \in [file : Files, duration : Durations, discontinuous : BOOLEAN] : s.discontinuous => (s.file = "seg1" /\ s.duration = 1)}

(***************************************************************************)
(* GObject reference counting                                              *)
(***************************************************************************)
g_object_ref(rc, f) == [rc EXCEPT ![f] = @ + 1]
g_object_unref(rc, f) == [rc EXCEPT ![f] = @ - 1]

(***************************************************************************)
(* g_build_filename (first, second, NULL): the elements up to the first    *)
(* NULL, empty ones skipped, joined by the directory separator.            *)
(***************************************************************************)
g_build_filename(first, second) ==
  IF first = NULL THEN ""
  ELSE IF second = NULL \/ second = "" THEN first
  ELSE IF first = "" THEN second
  ELSE first \o "/" \o second

(***************************************************************************)
(* gst_m3u8_entry_new: NULL when url is NULL, else the entry, which takes  *)
(* one reference on file.  The result pairs the entry with the new counts. *)
(***************************************************************************)
NoEntry == [url |-> NULL, file |-> NULL, title |-> NULL, duration |-> 0,
            length |-> 0, offset |-> 0, discontinuous |-> FALSE]

gst_m3u8_entry_new(rc, url, file, title, duration, length, offset, discontinuous) ==
  IF url = NULL THEN [entry |-> NoEntry, rc |-> rc]
  ELSE [entry |-> [url |-> url, file |-> file, title |-> title,
                   duration |-> duration, length |-> length,
                   offset |-> offset, discontinuous |-> discontinuous],
        rc |-> g_object_ref(rc, file)]

(* The entry freed without releasing its file. *)
EntryFreeKeepingFile(rc, entry) == rc

(* gst_m3u8_entry_free: releases the entry's reference on its file. *)
gst_m3u8_entry_free(rc, entry) ==
  IF entry.file # NULL THEN g_object_unref(rc, entry.file) ELSE rc

(***************************************************************************)
(* gst_m3u8_playlist_new                                                   *)
(***************************************************************************)
(* The constructor without the version gate on byte ranges. *)
PlaylistNewUngated(name, base_url, file, bitrate, version, window_size, allow_cache, chunked) ==
  [name |-> name, base_url |-> base_url, bitrate |-> bitrate,
   version |-> version, window_size |-> window_size,
   allow_cache |-> allow_cache,
   type |-> GST_M3U8_PLAYLIST_TYPE_EVENT, end_list |-> FALSE,
   sequence_number |-> 0, entries |-> <<>>, file |-> file,
   chunked |-> chunked]

gst_m3u8_playlist_new(name, base_url, file, bitrate, version, window_size, allow_cache, chunked) ==
  [name |-> name, base_url |-> base_url, bitrate |-> bitrate,
   version |-> version, window_size |-> window_size,
   allow_cache |-> allow_cache,
   type |-> GST_M3U8_PLAYLIST_TYPE_EVENT, end_list |-> FALSE,
   sequence_number |-> 0, entries |-> <<>>, file |-> file,
   chunked |-> IF ~chunked /\ version < 4 THEN TRUE ELSE chunked]

(***************************************************************************)
(* gst_m3u8_playlist_target_duration and gst_m3u8_playlist_duration: a     *)
(* gfloat accumulated over the queue and returned as a guint (truncated).  *)
(***************************************************************************)
(* The duration of the newest entry in place of the maximum. *)
DurationOfNewest(entries) ==
  IF entries = <<>> THEN 0 ELSE entries[Len(entries)].duration

RECURSIVE MaxDuration(_)
MaxDuration(entries) ==
  IF entries = <<>> THEN 0
  ELSE LET m == MaxDuration(Tail(entries))
       IN IF Head(entries).duration > m THEN Head(entries).duration ELSE m

(* The total accumulated in an integer: each duration loses its fraction. *)
RECURSIVE SumOfWholeSeconds(_)
SumOfWholeSeconds(entries) ==
  IF entries = <<>> THEN 0
  ELSE (Head(entries).duration \div DurDen) * DurDen + SumOfWholeSeconds(Tail(entries))

RECURSIVE SumDuration(_)
SumDuration(entries) ==
  IF entries = <<>> THEN 0
  ELSE Head(entries).duration + SumDuration(Tail(entries))

(* The target duration taken from the total in place of the maximum. *)
TargetDurationOfSum(p) == SumDuration(p.entries) \div DurDen

gst_m3u8_playlist_target_duration(p) == MaxDuration(p.entries) \div DurDen

(* The sum started at the second entry (i = 1 in place of i = 0). *)
DurationSkippingHead(p) == IF p.entries = <<>> THEN 0 ELSE SumDuration(Tail(p.entries)) \div DurDen

gst_m3u8_playlist_duration(p) == SumDuration(p.entries) \div DurDen

(***************************************************************************)
(* The eviction loop of gst_m3u8_playlist_add_entry: while the total       *)
(* duration is >= window_size pop the head, take a reference on its file   *)
(* for the caller, prepend the file to old_files and free the entry.       *)
(***************************************************************************)
(* The loop with g_list_append in place of g_list_prepend. *)
RECURSIVE EvictLoopAppending(_, _, _)
EvictLoopAppending(p, old_files, rc) ==
  IF gst_m3u8_playlist_duration(p) >= p.window_size
  THEN LET old_entry == Head(p.entries)
           rc1 == g_object_ref(rc, old_entry.file)
       IN EvictLoopAppending([p EXCEPT !.entries = Tail(@)],
                             old_files \o <<old_entry.file>>,
                             gst_m3u8_entry_free(rc1, old_entry))
  ELSE [p |-> p, old_files |-> old_files, rc |-> rc]

RECURSIVE EvictLoop(_, _, _)
EvictLoop(p, old_files, rc) ==
  IF gst_m3u8_playlist_duration(p) >= p.window_size
  THEN LET old_entry == Head(p.entries)
           rc1 == g_object_ref(rc, old_entry.file)
       IN EvictLoop([p EXCEPT !.entries = Tail(@)],
                    <<old_entry.file>> \o old_files,
                    gst_m3u8_entry_free(rc1, old_entry))
  ELSE [p |-> p, old_files |-> old_files, rc |-> rc]

(***************************************************************************)
(* gst_m3u8_playlist_add_entry as a function of the playlist, the          *)
(* reference counts and the arguments: the new playlist, the returned      *)
(* list, the new reference counts, and whether the entry was accepted.     *)
(***************************************************************************)
(* add_entry storing index in place of index + 1. *)
AddEntryStoringIndex(p, rc, path, file, title, duration, length, offset, index, discontinuous) ==
  IF p.type = GST_M3U8_PLAYLIST_TYPE_VOD
  THEN [p |-> p, ret |-> FALSE_AS_POINTER, rc |-> rc, accepted |-> FALSE]
  ELSE LET entry_url == g_build_filename(p.base_url, path)
           new == gst_m3u8_entry_new(rc, entry_url, file, title, duration,
                                     length, offset, discontinuous)
           ev == IF p.window_size # 0
                 THEN EvictLoop(p, <<>>, new.rc)
                 ELSE [p |-> p, old_files |-> <<>>, rc |-> new.rc]
       IN [p |-> [ev.p EXCEPT !.sequence_number = index,
                              !.entries = Append(@, new.entry)],
           ret |-> ev.old_files, rc |-> ev.rc, accepted |-> TRUE]

gst_m3u8_playlist_add_entry(p, rc, path, file, title, duration, length, offset, index, discontinuous) ==
  IF p.type = GST_M3U8_PLAYLIST_TYPE_VOD
  THEN [p |-> p, ret |-> FALSE_AS_POINTER, rc |-> rc, accepted |-> FALSE]
  ELSE LET entry_url == g_build_filename(p.base_url, path)
           new == gst_m3u8_entry_new(rc, entry_url, file, title, duration,
                                     length, offset, discontinuous)
           ev == IF p.window_size # 0
                 THEN EvictLoop(p, <<>>, new.rc)
                 ELSE [p |-> p, old_files |-> <<>>, rc |-> new.rc]
       IN [p |-> [ev.p EXCEPT !.sequence_number = index + 1,
                              !.entries = Append(@, new.entry)],
           ret |-> ev.old_files, rc |-> ev.rc, accepted |-> TRUE]

(***************************************************************************)
(* Text of one entry in gst_m3u8_playlist_render.  Below version 3 the     *)
(* duration is printed with %d after (duration + 500 ms) / GST_SECOND is   *)
(* truncated to a gint; since both constants are integers the truncation   *)
(* of the quotient equals that of the integer part of the numerator.  From *)
(* version 3 on it is g_ascii_dtostr of duration / GST_SECOND, the         *)
(* shortest text that reads back as the same double, which is kept as the  *)
(* exact quotient it denotes.                                              *)
(***************************************************************************)
IntInf(duration) == ((duration \div DurDen) + 500 * GST_MSECOND) \div GST_SECOND

g_ascii_dtostr(num, den) == "dtostr(" \o ToString(num) \o "/" \o ToString(den) \o "/" \o ToString(GST_SECOND) \o ")"

RenderEntry(entry, version) ==
  (IF entry.discontinuous THEN "#EXT-X-DISCONTINUITY\n" ELSE "")
  \o "#EXTINF:"
  \o (IF version < 3 THEN ToString(IntInf(entry.duration))
      ELSE g_ascii_dtostr(entry.duration, DurDen))
  \o "," \o (IF entry.title # NULL THEN entry.title ELSE "") \o "\n"
  \o entry.url \o "\n"

(* The queue walked from its tail. *)
RECURSIVE RenderEntriesFromTail(_, _)
RenderEntriesFromTail(entries, version) ==
  IF entries = <<>> THEN ""
  ELSE RenderEntriesFromTail(Tail(entries), version) \o RenderEntry(Head(entries), version)

RECURSIVE RenderEntries(_, _)
RenderEntries(entries, version) ==
  IF entries = <<>> THEN ""
  ELSE RenderEntry(Head(entries), version) \o RenderEntries(Tail(entries), version)

(* The difference taken from the index of the newest entry. *)
MediaSequenceFromIndex(p) == (p.sequence_number - 1) - Len(p.entries)

(* The value printed after #EXT-X-MEDIA-SEQUENCE: with %d: the guint        *)
(* difference read as a gint, i.e. the signed difference.                   *)
MediaSequence(p) == p.sequence_number - Len(p.entries)

gst_m3u8_playlist_render(p) ==
  "#EXTM3U\n"
  \o "#EXT-X-VERSION:" \o ToString(p.version) \o "\n"
  \o "#EXT-X-ALLOW-CACHE:" \o (IF p.allow_cache THEN "YES" ELSE "NO") \o "\n"
  \o "#EXT-X-MEDIA-SEQUENCE:" \o ToString(MediaSequence(p)) \o "\n"
  \o "#EXT-X-TARGETDURATION:" \o ToString(gst_m3u8_playlist_target_duration(p)) \o "\n"
  \o "\n"
  \o RenderEntries(p.entries, p.version)
  \o (IF p.end_list THEN "#EXT-X-ENDLIST" ELSE "")

(* gst_m3u8_playlist_free: every queued entry and the playlist release     *)
(* their file references.                                                  *)
RECURSIVE FreeEntries(_, _)
FreeEntries(rc, entries) ==
  IF entries = <<>> THEN rc
  ELSE FreeEntries(gst_m3u8_entry_free(rc, Head(entries)), Tail(entries))

gst_m3u8_playlist_free(rc, p) ==
  LET rc1 == FreeEntries(rc, p.entries)
  IN IF p.file # NULL THEN g_object_unref(rc1, p.file) ELSE rc1

(* Number of occurrences of f in a list of files. *)
RECURSIVE Count(_, _)
Count(list, f) ==
  IF list = <<>> THEN 0
  ELSE (IF Head(list) = f THEN 1 ELSE 0) + Count(Tail(list), f)

(***************************************************************************)
(* Initial states: a media playlist as gst_m3u8_playlist_new returns it    *)
(* (every GFile starts with the one reference its creator owns), and a     *)
(* registry as gst_m3u8_variant_playlist_new returns it.                   *)
(***************************************************************************)
(* The NULL GstM3U8Playlist pointer. *)
NullPlaylist == gst_m3u8_playlist_new(NULL, NULL, NULL, 0, 0, 0, FALSE, TRUE)

NoVCall == [op |-> "new", name |-> NULL, arg |-> NullPlaylist, ret |-> TRUE, found |-> NullPlaylist, text |-> NULL]

NoCall == [op |-> "new", path |-> NULL, accepted |-> TRUE, ret |-> <<>>, text |-> ""]

(* Every playlist of pool was constructed by gst_m3u8_playlist_new, which   *)
(* takes one reference on its file.                                        *)
PoolRefs(rc, pool) ==
  [f \in DOMAIN rc |-> rc[f] + Cardinality({v \in pool : v.file = f})]

InitMedia(base_urls, modes, window_sizes, pool) ==
  /\ \E base_url \in base_urls, mode \in modes, window_size \in window_sizes, allow_cache \in AllowCaches :
       /\ args = [name |-> "media", base_url |-> base_url, file |-> PlaylistFile, bitrate |-> 0, version |-> mode[1], window_size |-> window_size, allow_cache |-> allow_cache, chunked |-> mode[2]]
       /\ playlist = gst_m3u8_playlist_new("media", base_url, PlaylistFile, 0, mode[1], window_size, allow_cache, mode[2])
  /\ freed = FALSE
  /\ refcount = PoolRefs(g_object_ref([f \in AllFiles |-> 1], PlaylistFile), pool)
  /\ held = [f \in AllFiles |-> 0]
  /\ last = NoCall
  /\ nadded = 0
  /\ nevicted = 0
  /\ inorder = TRUE

InitRegistry ==
  /\ variants = <<>>
  /\ playlist_str = NULL
  /\ destroyed = {}
  /\ vfreed = FALSE
  /\ vlast = NoVCall

(* The threads that make read-only calls, none of which is in progress. *)
Readers == {1, 2}

IdleReader == [pc |-> "idle", op |-> "none", buf |-> "", i |-> 0, str |-> NULL, name |-> NULL, text |-> NULL, found |-> NullPlaylist]

InitReaders == readers = [t \in Readers |-> IdleReader]

(* The owner of the playlist and of the registry is the only thread. *)
NoReaders == readers = <<>>

(* No add_entry call is in progress. *)
IdleCall == [pc |-> "idle", path |-> NULL, entry |-> NoEntry, index |-> 0, old_files |-> <<>>, pops |-> 0, length |-> 0]

InitCall == call = IdleCall

Init == InitMedia(BaseUrls, Modes, WindowSizes, {}) /\ InitRegistry /\ NoReaders /\ InitCall

(***************************************************************************)
(* Operations on the media playlist                                        *)
(***************************************************************************)
(* One call of gst_m3u8_playlist_add_entry.  The caller disposes of a       *)
(* returned list before it adds again.                                     *)
AddEntryCall(path, file, title, duration, length, offset, index, discontinuous) ==
  /\ ~freed
  /\ \A f \in AllFiles : held[f] = 0
  /\ LET r == gst_m3u8_playlist_add_entry(playlist, refcount, path, file, title, duration, length, offset, index, discontinuous)
     IN /\ playlist' = r.p
        /\ refcount' = r.rc
        /\ held' = [f \in AllFiles |-> held[f] + Count(r.ret, f)]
        /\ last' = [op |-> "add_entry", path |-> path, accepted |-> r.accepted, ret |-> r.ret, text |-> ""]
        /\ nadded' = IF r.accepted THEN nadded + 1 ELSE nadded
        /\ nevicted' = nevicted + Len(r.ret)
        /\ inorder' = (inorder /\ (r.accepted => index = nadded))
  /\ UNCHANGED <<args, freed>>
  /\ UNCHANGED vvars
  /\ UNCHANGED cvars

(* A render that consumes the queue while it walks it. *)
RenderPopping ==
  /\ ~freed
  /\ last' = [op |-> "render", path |-> NULL, accepted |-> TRUE, ret |-> <<>>, text |-> gst_m3u8_playlist_render(playlist)]
  /\ playlist' = [playlist EXCEPT !.entries = <<>>]
  /\ UNCHANGED <<args, freed, refcount, held, nadded, nevicted, inorder>>
  /\ UNCHANGED vvars
  /\ UNCHANGED cvars

Render ==
  /\ ~freed
  /\ last' = [op |-> "render", path |-> NULL, accepted |-> TRUE, ret |-> <<>>, text |-> gst_m3u8_playlist_render(playlist)]
  /\ UNCHANGED <<playlist, args, freed, refcount, held, nadded, nevicted, inorder>>
  /\ UNCHANGED vvars
  /\ UNCHANGED cvars

(* The owner of the playlist closes it: the public fields type and         *)
(* end_list are written by the caller, not by this file.  A playlist is    *)
(* marked VOD first and given its end-of-list tag after that.              *)
SetType ==
  /\ ~freed
  /\ playlist.type = GST_M3U8_PLAYLIST_TYPE_EVENT
  /\ playlist' = [playlist EXCEPT !.type = GST_M3U8_PLAYLIST_TYPE_VOD]
  /\ last' = [op |-> "set_type", path |-> NULL, accepted |-> TRUE, ret |-> <<>>, text |-> ""]
  /\ UNCHANGED <<args, freed, refcount, held, nadded, nevicted, inorder>>
  /\ UNCHANGED vvars
  /\ UNCHANGED cvars

SetEndList ==
  /\ ~freed
  /\ playlist.type = GST_M3U8_PLAYLIST_TYPE_VOD
  /\ ~playlist.end_list
  /\ playlist' = [playlist EXCEPT !.end_list = TRUE]
  /\ last' = [op |-> "set_end_list", path |-> NULL, accepted |-> TRUE, ret |-> <<>>, text |-> ""]
  /\ UNCHANGED <<args, freed, refcount, held, nadded, nevicted, inorder>>
  /\ UNCHANGED vvars
  /\ UNCHANGED cvars

Free ==
  /\ ~freed
  /\ freed' = TRUE
  /\ refcount' = gst_m3u8_playlist_free(refcount, playlist)
  /\ last' = [op |-> "free", path |-> NULL, accepted |-> TRUE, ret |-> <<>>, text |-> ""]
  /\ UNCHANGED <<playlist, args, held, nadded, nevicted, inorder>>
  /\ UNCHANGED vvars
  /\ UNCHANGED cvars

(* The caller drops one of the references it received in a returned list. *)
Release(f) ==
  /\ held[f] > 0
  /\ held' = [held EXCEPT ![f] = @ - 1]
  /\ refcount' = g_object_unref(refcount, f)
  /\ last' = [op |-> "release", path |-> NULL, accepted |-> TRUE, ret |-> <<>>, text |-> ""]
  /\ UNCHANGED <<playlist, args, freed, nadded, nevicted, inorder>>
  /\ UNCHANGED vvars
  /\ UNCHANGED cvars

AddEntry(path, file, title, duration, length, offset, index, discontinuous) ==
  /\ nadded < MaxAdds
  /\ AddEntryCall(path, file, title, duration, length, offset, index, discontinuous)

AddEntryAny ==
  \E path \in Paths, seg \in Segments, title \in Titles, index \in {0, nadded} :
    AddEntry(path, seg.file, title, seg.duration, 0, 0, index, seg.discontinuous)

ReleaseAny == \E f \in Files : Release(f)

Next ==
  \/ AddEntryAny
  \/ Render
  \/ SetType
  \/ SetEndList
  \/ Free
  \/ ReleaseAny

Spec == Init /\ [][Next]_vars

(***************************************************************************)
(* The variant registry.  The GHashTable variants is the sequence of its   *)
(* values in the order g_hash_table_foreach visits them: that order is     *)
(* fixed while the table is unchanged, and an inserted key may land at any *)
(* position of it.                                                         *)
(***************************************************************************)
(* The names are keys that g_str_hash sends to one bucket of a new table.  *)

VariantPool ==
  { gst_m3u8_playlist_new("240p", "http://h", PlaylistFile, 100, 3, 0, TRUE, TRUE),
    gst_m3u8_playlist_new("240p", "http://h", PlaylistFile, 200, 3, 0, TRUE, TRUE),
    gst_m3u8_playlist_new("360p", "http://h", PlaylistFile, 300, 3, 0, TRUE, TRUE),
    gst_m3u8_playlist_new("480p", "http://h", PlaylistFile, 400, 3, 0, TRUE, TRUE) }

VariantNames == {v.name : v \in VariantPool}

(* g_hash_table_lookup: the value stored under key, or the NULL pointer. *)
RECURSIVE g_hash_table_lookup(_, _)
g_hash_table_lookup(table, key) ==
  IF table = <<>> THEN NullPlaylist
  ELSE IF Head(table).name = key THEN Head(table)
  ELSE g_hash_table_lookup(Tail(table), key)

(* g_hash_table_insert of a key that is not in the table, landing at       *)
(* position pos of the iteration order.                                    *)
g_hash_table_insert(table, pos, value) ==
  SubSeq(table, 1, pos) \o <<value>> \o SubSeq(table, pos + 1, Len(table))

(* g_hash_table_remove: drops the key if present. *)
RECURSIVE g_hash_table_remove(_, _)
g_hash_table_remove(table, key) ==
  IF table = <<>> THEN <<>>
  ELSE IF Head(table).name = key THEN Tail(table)
  ELSE <<Head(table)>> \o g_hash_table_remove(Tail(table), key)

render_variant(p) ==
  "#EXT-X-STREAM-INF:PROGRAM-ID=1,BANDWIDTH=" \o ToString(p.bitrate) \o "\n"
  \o p.base_url \o "/" \o p.name \o ".m3u8\n"

RECURSIVE RenderVariants(_)
RenderVariants(table) ==
  IF table = <<>> THEN ""
  ELSE render_variant(Head(table)) \o RenderVariants(Tail(table))

(* An update that writes the header and forgets the table walk. *)
UpdateWithoutVariants(table) == "#EXTM3U\n"

(* gst_m3u8_variant_playlist_update: the new value of playlist_str. *)
gst_m3u8_variant_playlist_update(table) == "#EXTM3U\n" \o RenderVariants(table)

gst_m3u8_variant_playlist_get_variant(table, name) == g_hash_table_lookup(table, name)

(* add_variant without the lookup: the new playlist replaces a registered  *)
(* one of the same name.                                                   *)
AddVariantReplacing(table, str, pos, variant) ==
  LET t == g_hash_table_insert(g_hash_table_remove(table, variant.name), 0, variant)
  IN [variants |-> t, playlist_str |-> gst_m3u8_variant_playlist_update(t), ret |-> TRUE]

(* gst_m3u8_variant_playlist_add_variant: the new table, the new cached    *)
(* text and the returned gboolean.                                         *)
gst_m3u8_variant_playlist_add_variant(table, str, pos, variant) ==
  IF g_hash_table_lookup(table, variant.name) # NullPlaylist
  THEN [variants |-> table, playlist_str |-> str, ret |-> FALSE]
  ELSE LET t == g_hash_table_insert(table, pos, variant)
       IN [variants |-> t, playlist_str |-> gst_m3u8_variant_playlist_update(t), ret |-> TRUE]

(* remove_variant with the test the right way round: a registered variant *)
(* is removed and freed, an absent name is refused.                        *)
RemoveVariantFound(table, str, name) ==
  LET variant == gst_m3u8_variant_playlist_get_variant(table, name)
  IN IF variant = NullPlaylist
     THEN [variants |-> table, playlist_str |-> str, freed |-> {}, ret |-> FALSE]
     ELSE LET t == g_hash_table_remove(table, name)
          IN [variants |-> t, playlist_str |-> gst_m3u8_variant_playlist_update(t),
              freed |-> {variant}, ret |-> TRUE]

(* gst_m3u8_variant_playlist_remove_variant: returns FALSE when the name   *)
(* is found; otherwise removes the (absent) key, calls                     *)
(* gst_m3u8_playlist_free on the NULL variant, which returns at its        *)
(* g_return_if_fail, and updates the text.  freed is the set of playlists  *)
(* handed to gst_m3u8_playlist_free that it went on to release.            *)
gst_m3u8_variant_playlist_remove_variant(table, str, name) ==
  LET variant == gst_m3u8_variant_playlist_get_variant(table, name)
  IN IF variant # NullPlaylist
     THEN [variants |-> table, playlist_str |-> str, freed |-> {}, ret |-> FALSE]
     ELSE LET t == g_hash_table_remove(table, name)
          IN [variants |-> t, playlist_str |-> gst_m3u8_variant_playlist_update(t),
              freed |-> {variant} \ {NullPlaylist}, ret |-> TRUE]

(* gst_m3u8_variant_playlist_render: a copy of playlist_str->str; with     *)
(* playlist_str still NULL the read is through a NULL pointer, which ends  *)
(* the process or yields whatever the build makes of it.                   *)
NullReadOutcomes == {"<SIGSEGV>", NULL}

gst_m3u8_variant_playlist_render(str) ==
  IF str = NULL THEN NullReadOutcomes ELSE {str}

Range(seq) == {seq[i] : i \in 1..Len(seq)}

(***************************************************************************)
(* Operations on the registry                                              *)
(***************************************************************************)
AddVariant(variant, pos) ==
  /\ ~vfreed
  /\ Len(variants) < MaxVariants
  /\ variant \notin destroyed
  /\ pos \in 0..Len(variants)
  /\ LET r == gst_m3u8_variant_playlist_add_variant(variants, playlist_str, pos, variant)
     IN /\ r.ret \/ pos = 0
        /\ variants' = r.variants
        /\ playlist_str' = r.playlist_str
        /\ vlast' = [op |-> "add_variant", name |-> variant.name, arg |-> variant, ret |-> r.ret, found |-> NullPlaylist, text |-> NULL]
  /\ UNCHANGED <<destroyed, vfreed>>
  /\ UNCHANGED mvars
  /\ UNCHANGED cvars

GetVariant(name) ==
  /\ ~vfreed
  /\ vlast' = [op |-> "get_variant", name |-> name, arg |-> NullPlaylist, ret |-> TRUE, found |-> gst_m3u8_variant_playlist_get_variant(variants, name), text |-> NULL]
  /\ UNCHANGED <<variants, playlist_str, destroyed, vfreed>>
  /\ UNCHANGED mvars
  /\ UNCHANGED cvars

RemoveVariant(name) ==
  /\ ~vfreed
  /\ LET r == gst_m3u8_variant_playlist_remove_variant(variants, playlist_str, name)
     IN /\ variants' = r.variants
        /\ playlist_str' = r.playlist_str
        /\ destroyed' = destroyed \cup r.freed
        /\ refcount' = IF r.freed = {} THEN refcount
                       ELSE gst_m3u8_playlist_free(refcount, CHOOSE v \in r.freed : TRUE)
        /\ vlast' = [op |-> "remove_variant", name |-> name, arg |-> NullPlaylist, ret |-> r.ret, found |-> NullPlaylist, text |-> NULL]
  /\ UNCHANGED vfreed
  /\ UNCHANGED <<playlist, args, freed, held, last, nadded, nevicted, inorder>>
  /\ UNCHANGED cvars

VRender ==
  /\ ~vfreed
  /\ \E out \in gst_m3u8_variant_playlist_render(playlist_str) :
       vlast' = [op |-> "render", name |-> NULL, arg |-> NullPlaylist, ret |-> TRUE, found |-> NullPlaylist, text |-> out]
  /\ UNCHANGED <<variants, playlist_str, destroyed, vfreed>>
  /\ UNCHANGED mvars
  /\ UNCHANGED cvars

(* g_list_foreach (variants, gst_m3u8_playlist_free): every playlist of the *)
(* list releases its entries and its file.                                 *)
RECURSIVE FreePlaylists(_, _)
FreePlaylists(rc, list) ==
  IF list = <<>> THEN rc
  ELSE FreePlaylists(gst_m3u8_playlist_free(rc, Head(list)), Tail(list))

(* gst_m3u8_variant_playlist_free: frees every contained playlist. *)
VFree ==
  /\ ~vfreed
  /\ vfreed' = TRUE
  /\ destroyed' = destroyed \cup Range(variants)
  /\ refcount' = FreePlaylists(refcount, variants)
  /\ variants' = <<>>
  /\ playlist_str' = NULL
  /\ vlast' = [op |-> "free", name |-> NULL, arg |-> NullPlaylist, ret |-> TRUE, found |-> NullPlaylist, text |-> NULL]
  /\ UNCHANGED <<playlist, args, freed, held, last, nadded, nevicted, inorder>>
  /\ UNCHANGED cvars

AddVariantAny == \E variant \in VariantPool, pos \in 0..MaxVariants : AddVariant(variant, pos)

GetVariantAny == \E name \in VariantNames \cup {"none"} : GetVariant(name)

RemoveVariantAny == \E name \in VariantNames \cup {"none"} : RemoveVariant(name)

VNext ==
  \/ AddVariantAny
  \/ GetVariantAny
  \/ RemoveVariantAny
  \/ VRender
  \/ VFree

VInit == InitMedia({"http://h"}, {<<3, TRUE>>}, {0}, VariantPool) /\ InitRegistry /\ NoReaders /\ InitCall

VariantSpec == VInit /\ [][VNext]_vars

(***************************************************************************)
(* A playlist without a window (window_size = 0) that is fed a long run of *)
(* segments of one or two seconds.                                         *)
(***************************************************************************)
LongRun == 10

LongDurations == {DurDen, 2 * DurDen}

UnboundedInit == InitMedia(BaseUrls, {<<3, TRUE>>}, {0}, {}) /\ InitRegistry /\ NoReaders /\ InitCall

AddEntryUnbounded ==
  /\ nadded < LongRun
  /\ \E path \in Paths, title \in Titles, duration \in LongDurations, index \in {0, nadded} :
       AddEntryCall(path, "seg1", title, duration, 0, 0, index, FALSE)

UnboundedNext ==
  \/ AddEntryUnbounded
  \/ Render

UnboundedSpec == UnboundedInit /\ [][UnboundedNext]_vars

(***************************************************************************)
(* The media playlist of one version: the queue discipline (eviction,      *)
(* order, sequence numbers, target duration) reads neither version nor     *)
(* chunked.                                                                *)
(***************************************************************************)
QueueInit == InitMedia(BaseUrls, {<<4, FALSE>>}, WindowSizes, {}) /\ InitRegistry /\ NoReaders /\ InitCall

QueueSpec == QueueInit /\ [][Next]_vars

(***************************************************************************)
(* The media playlist created with a NULL, an empty or a proper base_url   *)
(* and fed empty and proper paths.                                         *)
(***************************************************************************)
UrlBases == {NULL, "", "http://h"}

UrlPaths == {"", "a.ts"}

UrlInit == InitMedia(UrlBases, {<<3, TRUE>>}, {0, 1}, {}) /\ InitRegistry /\ NoReaders /\ InitCall

AddEntryUrl ==
  \E path \in UrlPaths, seg \in Segments, title \in Titles :
    AddEntry(path, seg.file, title, seg.duration, 0, 0, nadded, seg.discontinuous)

UrlNext ==
  \/ AddEntryUrl
  \/ Render
  \/ Free
  \/ ReleaseAny

UrlSpec == UrlInit /\ [][UrlNext]_vars

(***************************************************************************)
(* Read-only calls running in several threads.  A call of                  *)
(* gst_m3u8_playlist_render advances one statement at a time, appending to *)
(* the GString that is local to the call; gst_m3u8_variant_playlist_render *)
(* reads the playlist_str pointer and then copies its text; get_variant is *)
(* one table lookup.  add_entry and add_variant run only while no          *)
(* read-only call is in progress.                                          *)
(***************************************************************************)
AllIdle == \A t \in Readers : readers[t].pc = "idle"

(* Every call in progress appends to one and the same GString. *)
AppendToSharedString(rs, t, s) ==
  [x \in DOMAIN rs |-> [rs[x] EXCEPT !.buf = @ \o s]]

(* g_string_append_printf on the playlist_str local to the call of t. *)
g_string_append_printf(rs, t, s) ==
  [rs EXCEPT ![t].buf = @ \o s]

RenderBegin(t) ==
  /\ ~freed
  /\ readers[t].pc = "idle"
  /\ readers' = [readers EXCEPT ![t] = [IdleReader EXCEPT !.pc = "version", !.op = "render", !.buf = "#EXTM3U\n"]]
  /\ UNCHANGED mvars
  /\ UNCHANGED vvars
  /\ UNCHANGED call

RenderStatement(t) ==
  LET r == readers[t]
      goto(rs, pc) == [rs EXCEPT ![t].pc = pc]
  IN /\ r.op = "render"
     /\ r.pc \in {"version", "allow_cache", "media_sequence", "target_duration"}
     /\ readers' =
          CASE r.pc = "version" ->
                 goto(g_string_append_printf(readers, t, "#EXT-X-VERSION:" \o ToString(playlist.version) \o "\n"), "allow_cache")
            [] r.pc = "allow_cache" ->
                 goto(g_string_append_printf(readers, t, "#EXT-X-ALLOW-CACHE:" \o (IF playlist.allow_cache THEN "YES" ELSE "NO") \o "\n"), "media_sequence")
            [] r.pc = "media_sequence" ->
                 goto(g_string_append_printf(readers, t, "#EXT-X-MEDIA-SEQUENCE:" \o ToString(MediaSequence(playlist)) \o "\n"), "target_duration")
            [] r.pc = "target_duration" ->
                 [goto(g_string_append_printf(readers, t, "#EXT-X-TARGETDURATION:" \o ToString(gst_m3u8_playlist_target_duration(playlist)) \o "\n\n"), "entries")
                    EXCEPT ![t].i = 1]
     /\ UNCHANGED mvars
     /\ UNCHANGED vvars
     /\ UNCHANGED call

RenderLoop(t) ==
  LET r == readers[t]
  IN /\ r.op = "render"
     /\ r.pc = "entries"
     /\ r.i <= Len(playlist.entries)
     /\ readers' = [g_string_append_printf(readers, t, RenderEntry(playlist.entries[r.i], playlist.version))
                      EXCEPT ![t].i = r.i + 1]
     /\ UNCHANGED mvars
     /\ UNCHANGED vvars
     /\ UNCHANGED call

RenderReturn(t) ==
  LET r == readers[t]
      rs == g_string_append_printf(readers, t, IF playlist.end_list THEN "#EXT-X-ENDLIST" ELSE "")
  IN /\ r.op = "render"
     /\ r.pc = "entries"
     /\ r.i > Len(playlist.entries)
     /\ readers' = [rs EXCEPT ![t].pc = "done", ![t].text = rs[t].buf]
     /\ UNCHANGED mvars
     /\ UNCHANGED vvars
     /\ UNCHANGED call

VRenderRead(t) ==
  /\ ~vfreed
  /\ readers[t].pc = "idle"
  /\ readers' = [readers EXCEPT ![t] = [IdleReader EXCEPT !.pc = "copy", !.op = "variant_render", !.str = playlist_str]]
  /\ UNCHANGED mvars
  /\ UNCHANGED vvars
  /\ UNCHANGED call

VRenderCopy(t) ==
  /\ readers[t].pc = "copy"
  /\ \E out \in gst_m3u8_variant_playlist_render(readers[t].str) :
       readers' = [readers EXCEPT ![t].pc = "done", ![t].text = out]
  /\ UNCHANGED mvars
  /\ UNCHANGED vvars
  /\ UNCHANGED call

GetVariantCall(t, name) ==
  /\ ~vfreed
  /\ readers[t].pc = "idle"
  /\ readers' = [readers EXCEPT ![t] = [IdleReader EXCEPT !.pc = "done", !.op = "get_variant", !.name = name,
                                                           !.found = gst_m3u8_variant_playlist_get_variant(variants, name)]]
  /\ UNCHANGED mvars
  /\ UNCHANGED vvars
  /\ UNCHANGED call

(* The caller takes the result; the thread may start another call. *)
Return(t) ==
  /\ readers[t].pc = "done"
  /\ readers' = [readers EXCEPT ![t] = IdleReader]
  /\ UNCHANGED mvars
  /\ UNCHANGED vvars
  /\ UNCHANGED call

ReaderStep ==
  \E t \in Readers :
     \/ RenderBegin(t)
     \/ RenderStatement(t)
     \/ RenderLoop(t)
     \/ RenderReturn(t)
     \/ VRenderRead(t)
     \/ VRenderCopy(t)
     \/ \E name \in {"240p", "none"} : GetVariantCall(t, name)
     \/ Return(t)

ConcSegments == {s \in Segments : s.file = "seg1"}

ConcVariants == {v \in VariantPool : v.bitrate \in {100, 300}}

AddEntryQuiet ==
  /\ AllIdle
  /\ \E path \in Paths, seg \in ConcSegments, title \in Titles :
       AddEntry(path, seg.file, title, seg.duration, 0, 0, nadded, seg.discontinuous)

AddVariantQuiet ==
  /\ AllIdle
  /\ \E variant \in ConcVariants, pos \in 0..MaxVariants : AddVariant(variant, pos)

ConcInit == InitMedia(BaseUrls, {<<3, TRUE>>}, {0}, ConcVariants) /\ InitRegistry /\ InitReaders /\ InitCall

ConcNext ==
  \/ AddEntryQuiet
  \/ AddVariantQuiet
  \/ ReaderStep

ConcurrentSpec == ConcInit /\ [][ConcNext]_vars

(***************************************************************************)
(* gst_m3u8_playlist_add_entry executed statement by statement: the entry  *)
(* is built, the loop tests the total duration and pops the head in turn,  *)
(* and the entry is pushed.  Entries may have a duration of zero.  Once    *)
(* begun, the call keeps running until it returns.                         *)
(***************************************************************************)
StepDurations == 0..MaxDur

(* g_queue_pop_head: the head and the rest, or NULL from an empty queue. *)
g_queue_pop_head(queue) ==
  IF queue = <<>> THEN [data |-> NoEntry, queue |-> queue]
  ELSE [data |-> Head(queue), queue |-> Tail(queue)]

AddBegin(path, file, title, duration, length, offset, index, discontinuous) ==
  /\ call.pc = "idle"
  /\ ~freed
  /\ nadded < MaxAdds
  /\ \A f \in AllFiles : held[f] = 0
  /\ IF playlist.type = GST_M3U8_PLAYLIST_TYPE_VOD
     THEN /\ last' = [op |-> "add_entry", path |-> path, accepted |-> FALSE, ret |-> FALSE_AS_POINTER, text |-> ""]
          /\ UNCHANGED <<refcount, call>>
     ELSE LET new == gst_m3u8_entry_new(refcount, g_build_filename(playlist.base_url, path), file, title, duration, length, offset, discontinuous)
          IN /\ refcount' = new.rc
             /\ call' = [pc |-> IF playlist.window_size # 0 THEN "test" ELSE "push",
                         path |-> path, entry |-> new.entry, index |-> index,
                         old_files |-> <<>>, pops |-> 0, length |-> Len(playlist.entries)]
             /\ UNCHANGED last
  /\ UNCHANGED <<playlist, args, freed, held, nadded, nevicted, inorder, readers>>
  /\ UNCHANGED vvars

(* A loop whose test does not look at the window. *)
LoopTestIgnoringWindow ==
  /\ call.pc = "test"
  /\ call' = [call EXCEPT !.pc = IF gst_m3u8_playlist_duration(playlist) >= 0 THEN "pop" ELSE "push"]
  /\ UNCHANGED <<readers>>
  /\ UNCHANGED mvars
  /\ UNCHANGED vvars

LoopTest ==
  /\ call.pc = "test"
  /\ call' = [call EXCEPT !.pc = IF gst_m3u8_playlist_duration(playlist) >= playlist.window_size THEN "pop" ELSE "push"]
  /\ UNCHANGED <<readers>>
  /\ UNCHANGED mvars
  /\ UNCHANGED vvars

(* The body of the loop; old_entry->file of a NULL old_entry ends the call. *)
LoopPop ==
  /\ call.pc = "pop"
  /\ LET popped == g_queue_pop_head(playlist.entries)
         old_entry == popped.data
     IN IF old_entry = NoEntry
        THEN /\ call' = [call EXCEPT !.pc = "crashed"]
             /\ UNCHANGED <<playlist, refcount>>
        ELSE /\ playlist' = [playlist EXCEPT !.entries = popped.queue]
             /\ refcount' = gst_m3u8_entry_free(g_object_ref(refcount, old_entry.file), old_entry)
             /\ call' = [call EXCEPT !.pc = "test", !.old_files = <<old_entry.file>> \o @, !.pops = @ + 1]
  /\ UNCHANGED <<args, freed, held, last, nadded, nevicted, inorder, readers>>
  /\ UNCHANGED vvars

AddPush ==
  /\ call.pc = "push"
  /\ playlist' = [playlist EXCEPT !.sequence_number = call.index + 1, !.entries = Append(@, call.entry)]
  /\ held' = [f \in AllFiles |-> held[f] + Count(call.old_files, f)]
  /\ last' = [op |-> "add_entry", path |-> call.path, accepted |-> TRUE, ret |-> call.old_files, text |-> ""]
  /\ nadded' = nadded + 1
  /\ nevicted' = nevicted + Len(call.old_files)
  /\ inorder' = (inorder /\ call.index = nadded)
  /\ call' = IdleCall
  /\ UNCHANGED <<args, freed, refcount, readers>>
  /\ UNCHANGED vvars

AddBeginAny ==
  \E path \in Paths, file \in Files, title \in Titles, duration \in StepDurations :
    AddBegin(path, file, title, duration, 0, 0, nadded, FALSE)

AddEntryStep ==
  \/ LoopTest
  \/ LoopPop
  \/ AddPush

StepInit == InitMedia(BaseUrls, {<<4, FALSE>>}, WindowSizes, {}) /\ InitRegistry /\ NoReaders /\ InitCall

StepNext ==
  \/ AddBeginAny
  \/ AddEntryStep
  \/ ReleaseAny

StepSpec == StepInit /\ [][StepNext]_vars /\ WF_vars(AddEntryStep)

(***************************************************************************)
(* Properties                                                              *)
(***************************************************************************)
Reverse(seq) == [i \in 1..Len(seq) |-> seq[Len(seq) + 1 - i]]

AcceptedAdd == last.op = "add_entry" /\ last.accepted

(* C1: with window_size = W > 0, after every accepted add_entry the total  *)
(* duration of the entries in the queue is strictly less than W plus the   *)
(* duration of the entry just added.                                       *)
C1_WindowBound ==
  (~freed /\ AcceptedAdd /\ playlist.window_size > 0)
    => SumDuration(playlist.entries) < playlist.window_size * DurDen + playlist.entries[Len(playlist.entries)].duration

(* An accepted add that evicted, leaving more than the window in the queue. *)
C1_Witness ==
  /\ ~freed /\ AcceptedAdd /\ playlist.window_size > 0
  /\ Len(last.ret) >= 1
  /\ Len(playlist.entries) >= 2
  /\ SumDuration(playlist.entries) > playlist.window_size * DurDen

(* C2: when every add_entry is given the absolute index of its entry, the  *)
(* media sequence render reports, sequence_number - entries.length, is the *)
(* number of entries evicted so far.                                       *)
C2_MediaSequenceIsEvicted == (~freed /\ inorder) => MediaSequence(playlist) = nevicted

C2_Witness == ~freed /\ inorder /\ nevicted >= 2 /\ Len(playlist.entries) >= 1 /\ last.op = "render"

(* The files of the entries an add_entry step removed from the head of the *)
(* queue, in the order they were popped (oldest first).                    *)
PoppedFiles ==
  LET k == Len(playlist.entries) + 1 - Len(playlist'.entries)
  IN [i \in 1..k |-> playlist.entries[i].file]

AcceptedAddStep == last'.op = "add_entry" /\ last'.accepted

(* C3 as stated: the list add_entry returns holds exactly the files of the *)
(* entries the call removed, oldest first.                                 *)
C3_OldestFirst == [][AcceptedAddStep => last'.ret = PoppedFiles]_vars

(* C3 as the code has it: the list add_entry returns holds exactly the     *)
(* files of the entries the call removed, one per entry, newest first (the *)
(* reverse of the order in which they were popped).                        *)
C3_NewestFirst == [][AcceptedAddStep => last'.ret = Reverse(PoppedFiles)]_vars

(* One call evicted two entries with different files. *)
C3_Witness == AcceptedAdd /\ Len(last.ret) >= 2 /\ last.ret[1] # last.ret[2]

(* C4 as stated: add_entry on a VOD playlist changes nothing, takes no     *)
(* file reference, and returns something other than what an accepted       *)
(* append that evicted nothing returns (the NULL list).                    *)
C4_VodRejectionVisible ==
  [][(last'.op = "add_entry" /\ playlist.type = GST_M3U8_PLAYLIST_TYPE_VOD)
       => (playlist' = playlist /\ refcount' = refcount /\ last'.ret # NullList)]_vars

Lookup(name) == gst_m3u8_variant_playlist_get_variant(variants, name)

(* C5: add_variant of a registered name returns FALSE and leaves the table *)
(* and the cached text as they were, get_variant still finding the first   *)
(* playlist; add_variant of a new name returns TRUE and get_variant then   *)
(* finds the added playlist.                                               *)
C5_AddVariant ==
  [][vlast'.op = "add_variant"
       => IF Lookup(vlast'.name) # NullPlaylist
          THEN /\ ~vlast'.ret
               /\ variants' = variants
               /\ playlist_str' = playlist_str
               /\ gst_m3u8_variant_playlist_get_variant(variants', vlast'.name) = Lookup(vlast'.name)
          ELSE /\ vlast'.ret
               /\ gst_m3u8_variant_playlist_get_variant(variants', vlast'.name) = vlast'.arg]_vars

(* A second playlist named like a registered one was just rejected. *)
C5_Witness ==
  /\ vlast.op = "add_variant" /\ ~vlast.ret
  /\ Lookup(vlast.name) # NullPlaylist
  /\ Lookup(vlast.name) # vlast.arg
  /\ Len(variants) >= 2

(* C6 as stated: remove_variant of a registered name destroys the variant, *)
(* removes it so that get_variant no longer finds it, re-renders the       *)
(* cached text without it and returns TRUE.                                *)
C6_RemoveRegistered ==
  [][(vlast'.op = "remove_variant" /\ Lookup(vlast'.name) # NullPlaylist)
       => /\ vlast'.ret
          /\ gst_m3u8_variant_playlist_get_variant(variants', vlast'.name) = NullPlaylist
          /\ Lookup(vlast'.name) \in destroyed'
          /\ playlist_str' = gst_m3u8_variant_playlist_update(variants')]_vars

(* C7 as stated: remove_variant of a name that is not registered returns   *)
(* FALSE, destroys nothing and leaves the table and the cached text as     *)
(* they were.                                                              *)
C7_RemoveAbsentFails ==
  [][(vlast'.op = "remove_variant" /\ Lookup(vlast'.name) = NullPlaylist)
       => /\ ~vlast'.ret
          /\ destroyed' = destroyed
          /\ variants' = variants
          /\ playlist_str' = playlist_str]_vars

(* References the live playlist holds on f: one per queued entry of f and  *)
(* one if f is the playlist's own file.                                    *)
RECURSIVE EntryRefs(_, _)
EntryRefs(entries, f) ==
  IF entries = <<>> THEN 0
  ELSE (IF Head(entries).file = f THEN 1 ELSE 0) + EntryRefs(Tail(entries), f)

PlaylistRefs(f) ==
  IF freed THEN 0 ELSE EntryRefs(playlist.entries, f) + (IF playlist.file = f THEN 1 ELSE 0)

(* C8: the references on every file are balanced: its count is the         *)
(* creator's one reference, plus one per queued entry of a live playlist   *)
(* (and one for the playlist's own file), plus one per handle returned to  *)
(* the caller and not yet released; so once the playlist is freed and      *)
(* every returned handle released the count is back at its first value.    *)
C8_RefsBalanced == \A f \in AllFiles : refcount[f] = 1 + PlaylistRefs(f) + held[f]

(* Entries were evicted, the playlist freed with entries still queued, and *)
(* every returned handle released.                                         *)
C8_Witness ==
  /\ freed /\ nevicted >= 2 /\ Len(playlist.entries) >= 1
  /\ \A f \in AllFiles : held[f] = 0 /\ refcount[f] = 1
  /\ last.op = "release"

(* C9: byte-range mode (chunked = FALSE) implies version >= 4 in every     *)
(* state; the constructor turns chunked = FALSE into TRUE below version 4  *)
(* and keeps the requested value otherwise.                                *)
C9_VersionGate ==
  /\ ~playlist.chunked => playlist.version >= 4
  /\ playlist.version = args.version
  /\ playlist.chunked = (IF ~args.chunked /\ args.version < 4 THEN TRUE ELSE args.chunked)

(* Byte ranges were requested below version 4 and entries later added. *)
C9_Witness ==
  /\ ~args.chunked /\ args.version < 4 /\ playlist.chunked
  /\ nadded >= 2 /\ last.op = "render"

(* C10: render leaves the playlist and every reference count unchanged,    *)
(* returns the text of the playlist as it stands, and a render that        *)
(* follows a render returns the same text.                                 *)
C10_RenderPure ==
  [][last'.op = "render"
       => /\ playlist' = playlist
          /\ refcount' = refcount
          /\ last'.text = gst_m3u8_playlist_render(playlist')
          /\ (last.op = "render" => last'.text = last.text)]_vars

(* A rendered playlist with entries, one of them discontinuous, and the    *)
(* end-of-list tag.                                                        *)
C10_Witness ==
  /\ last.op = "render" /\ Len(playlist.entries) >= 2 /\ playlist.end_list
  /\ \E i \in 1..Len(playlist.entries) : playlist.entries[i].discontinuous
  /\ last.text = gst_m3u8_playlist_render(playlist)

(***************************************************************************)
(* C11: after every add_variant or remove_variant call that changes the    *)
(* set of registered variants, the cached master text is the header        *)
(* followed by exactly one bandwidth/URL stanza for each registered        *)
(* variant, in some order, and by nothing else.                            *)
(***************************************************************************)
Stanza(v) ==
  "#EXT-X-STREAM-INF:PROGRAM-ID=1,BANDWIDTH=" \o ToString(v.bitrate) \o "\n"
  \o v.base_url \o "/" \o v.name \o ".m3u8\n"

Orders(S) ==
  {o \in [1..Cardinality(S) -> S] : \A i, j \in 1..Cardinality(S) : o[i] = o[j] => i = j}

RECURSIVE Stanzas(_, _)
Stanzas(o, i) == IF i > Len(o) THEN "" ELSE Stanza(o[i]) \o Stanzas(o, i + 1)

OneStanzaEach(text, S) == \E o \in Orders(S) : text = "#EXTM3U\n" \o Stanzas(o, 1)

C11_CacheMatchesSet ==
  [][(vlast'.op \in {"add_variant", "remove_variant"} /\ Range(variants') # Range(variants))
       => OneStanzaEach(playlist_str', Range(variants'))]_vars

C11_Witness ==
  /\ vlast.op = "add_variant"
  /\ vlast.ret
  /\ Len(variants) >= 2
  /\ vlast.arg \in Range(variants)

(***************************************************************************)
(* The layout of a media playlist file: the header lines, a blank line,    *)
(* the entries and the optional end-of-list tag.                           *)
(***************************************************************************)
PlaylistText(version, allow_cache, media_sequence, target_duration, body, end_list) ==
  "#EXTM3U\n"
  \o "#EXT-X-VERSION:" \o ToString(version) \o "\n"
  \o "#EXT-X-ALLOW-CACHE:" \o (IF allow_cache THEN "YES" ELSE "NO") \o "\n"
  \o "#EXT-X-MEDIA-SEQUENCE:" \o ToString(media_sequence) \o "\n"
  \o "#EXT-X-TARGETDURATION:" \o ToString(target_duration) \o "\n\n"
  \o body
  \o (IF end_list THEN "#EXT-X-ENDLIST" ELSE "")

(* The largest queued duration, in whole seconds; 0 for an empty queue. *)
WholeMax(entries) ==
  LET S == {entries[i].duration : i \in 1..Len(entries)}
  IN IF S = {} THEN 0 ELSE (CHOOSE m \in S : \A d \in S : d <= m) \div DurDen

(***************************************************************************)
(* C12: with window_size = 0 nothing is ever evicted: every accepted       *)
(* add_entry returns the empty list and appends one entry to the unchanged *)
(* queue, so after n accepted calls the queue holds all n entries; render  *)
(* reports the media sequence sequence_number - n and the truncated        *)
(* maximum as target duration, which is 2 for ten entries of 2.0 seconds.  *)
(***************************************************************************)
C12_Step ==
  (playlist.window_size = 0 /\ AcceptedAddStep)
    => /\ last'.ret = <<>>
       /\ Len(playlist'.entries) = Len(playlist.entries) + 1
       /\ SubSeq(playlist'.entries, 1, Len(playlist.entries)) = playlist.entries

C12_State ==
  (playlist.window_size = 0 /\ ~freed)
    => /\ Len(playlist.entries) = nadded
       /\ nevicted = 0
       /\ last.op = "render" =>
            last.text = PlaylistText(playlist.version, playlist.allow_cache,
                                     playlist.sequence_number - nadded, WholeMax(playlist.entries),
                                     RenderEntries(playlist.entries, playlist.version), playlist.end_list)
       /\ (nadded = 10 /\ \A i \in 1..10 : playlist.entries[i].duration = 2 * DurDen)
            => gst_m3u8_playlist_target_duration(playlist) = 2

C12_Unbounded == [][C12_Step]_vars /\ []C12_State

C12_Witness ==
  /\ playlist.window_size = 0
  /\ last.op = "render"
  /\ nadded = 10
  /\ \A i \in 1..10 : playlist.entries[i].duration = 2 * DurDen

(***************************************************************************)
(* C13 as stated: sequence_number never decreases, whatever sequence of    *)
(* add_entry calls is made.                                                *)
(***************************************************************************)
C13_NeverDecreases ==
  [][last'.op = "add_entry" => playlist'.sequence_number >= playlist.sequence_number]_vars

(* C13 amended: when every accepted call passes as index the number of     *)
(* entries accepted before it, an accepted add_entry raises                *)
(* sequence_number by exactly one and a rejected one leaves it unchanged.  *)
C13_InOrderIncreases ==
  [][last'.op = "add_entry"
       => IF last'.accepted
          THEN inorder' => playlist'.sequence_number = playlist.sequence_number + 1
          ELSE playlist'.sequence_number = playlist.sequence_number]_vars

C13_Witness ==
  /\ AcceptedAdd
  /\ inorder
  /\ nadded >= 2
  /\ playlist.sequence_number = nadded

(***************************************************************************)
(* C14: the duration tag of an entry is in integer-seconds form when       *)
(* version < 3 and in two-decimal fixed-point form when version >= 3: an   *)
(* entry of s whole seconds is rendered as #EXTINF:s, below version 3 and  *)
(* as #EXTINF:s.00, from version 3 on.                                     *)
(***************************************************************************)
WholeSeconds(entries) == \A i \in 1..Len(entries) : entries[i].duration % DurDen = 0

StatedInf(entry, version) ==
  IF version < 3 THEN ToString(entry.duration \div DurDen)
  ELSE ToString(entry.duration \div DurDen) \o ".00"

RECURSIVE StatedEntries(_, _, _)
StatedEntries(entries, version, i) ==
  IF i > Len(entries) THEN ""
  ELSE (IF entries[i].discontinuous THEN "#EXT-X-DISCONTINUITY\n" ELSE "")
       \o "#EXTINF:" \o StatedInf(entries[i], version) \o ","
       \o (IF entries[i].title # NULL THEN entries[i].title ELSE "") \o "\n"
       \o entries[i].url \o "\n"
       \o StatedEntries(entries, version, i + 1)

C14_DurationTagForm ==
  (last.op = "render" /\ WholeSeconds(playlist.entries))
    => last.text = PlaylistText(playlist.version, playlist.allow_cache, MediaSequence(playlist),
                                gst_m3u8_playlist_target_duration(playlist),
                                StatedEntries(playlist.entries, playlist.version, 1), playlist.end_list)

(***************************************************************************)
(* C15: the target duration a render prints is the largest duration of the *)
(* entries queued at that moment, truncated to an integer, and 0 for an    *)
(* empty queue; it is recomputed by every render, so that it is smaller    *)
(* once the entry of largest duration has been evicted.                    *)
(***************************************************************************)
C15_TargetDuration ==
  /\ ~freed => gst_m3u8_playlist_target_duration(playlist) = WholeMax(playlist.entries)
  /\ last.op = "render" =>
       last.text = PlaylistText(playlist.version, playlist.allow_cache, MediaSequence(playlist),
                                WholeMax(playlist.entries),
                                RenderEntries(playlist.entries, playlist.version), playlist.end_list)

(* A render after the only entry of at least one second was evicted to     *)
(* make room for a shorter one.                                            *)
C15_Witness ==
  /\ last.op = "render"
  /\ playlist.window_size = 1
  /\ nadded = 2 /\ nevicted = 1
  /\ Len(playlist.entries) = 1
  /\ WholeMax(playlist.entries) = 0

(***************************************************************************)
(* C16: an add_entry call whose segment URL, built from base_url and path, *)
(* is empty or null fails without touching the playlist: the queue, the    *)
(* sequence number and the reference counts are as before the call.        *)
(***************************************************************************)
C16_EmptyUrlRejected ==
  [][(last'.op = "add_entry" /\ g_build_filename(playlist.base_url, last'.path) \in {"", NULL})
       => (~last'.accepted /\ playlist' = playlist /\ refcount' = refcount)]_vars

(***************************************************************************)
(* C18: the master text is a function of the set of registered variants:   *)
(* whatever the order in which they were added, a registry that holds a    *)
(* given set has one and the same cached text, that of one fixed order of  *)
(* the set.                                                                *)
(***************************************************************************)
FixedOrder(S) == CHOOSE o \in Orders(S) : TRUE

C18_TextOfSet ==
  playlist_str # NULL
    => playlist_str = "#EXTM3U\n" \o Stanzas(FixedOrder(Range(variants)), 1)

(***************************************************************************)
(* C19: with window_size W > 0 an accepted add_entry pops the shortest     *)
(* prefix of the queue whose removal leaves a total duration strictly      *)
(* below W: each entry is popped while the total of the entries then       *)
(* queued is at least W (a total of exactly W evicts), nothing is popped   *)
(* when the total before the append is below W, and the entries that       *)
(* remain are followed by the new one.                                     *)
(***************************************************************************)
RECURSIVE Total(_, _)
Total(entries, i) == IF i > Len(entries) THEN 0 ELSE entries[i].duration + Total(entries, i + 1)

C19_Step ==
  (AcceptedAddStep /\ playlist.window_size > 0)
    => LET q == playlist.entries
           W == playlist.window_size * DurDen
           k == Len(last'.ret)
       IN /\ k <= Len(q)
          /\ Total(q, k + 1) < W
          /\ \A j \in 0..(k - 1) : Total(q, j + 1) >= W
          /\ (Total(q, 1) < W) => k = 0
          /\ (Total(q, 1) = W) => k >= 1
          /\ Len(playlist'.entries) = Len(q) - k + 1
          /\ SubSeq(playlist'.entries, 1, Len(q) - k) = SubSeq(q, k + 1, Len(q))

C19_ShortestPrefix == [][C19_Step]_vars

C19_Witness ==
  /\ AcceptedAdd
  /\ playlist.window_size > 0
  /\ Len(last.ret) >= 2
  /\ nevicted = Len(last.ret)

(***************************************************************************)
(* C20: the queue is strictly first-in first-out.  After an accepted       *)
(* add_entry it is a suffix of the queue before the call, unaltered,       *)
(* followed by the entry just added, which its own call never evicts; no   *)
(* other operation changes the queue; and render lists the entries from    *)
(* head to tail.                                                           *)
(***************************************************************************)
RECURSIVE Listed(_, _, _)
Listed(entries, version, i) ==
  IF i > Len(entries) THEN ""
  ELSE RenderEntry(entries[i], version) \o Listed(entries, version, i + 1)

C20_Step ==
  LET q == playlist.entries
      n == Len(playlist'.entries)
  IN /\ AcceptedAddStep
          => /\ n >= 1
             /\ playlist'.entries[n].url = g_build_filename(playlist.base_url, last'.path)
             /\ \E k \in 0..Len(q) :
                  /\ k = Len(last'.ret)
                  /\ playlist'.entries = SubSeq(q, k + 1, Len(q)) \o <<playlist'.entries[n]>>
     /\ ~AcceptedAddStep => playlist'.entries = q
     /\ last'.op = "render"
          => last'.text = PlaylistText(playlist.version, playlist.allow_cache, MediaSequence(playlist),
                                       gst_m3u8_playlist_target_duration(playlist),
                                       Listed(q, playlist.version, 1), playlist.end_list)

C20_Fifo == [][C20_Step]_vars

C20_Witness ==
  /\ AcceptedAdd
  /\ playlist.window_size > 0
  /\ Len(last.ret) >= 1
  /\ Len(playlist.entries) >= 2
  /\ playlist.entries[Len(playlist.entries)].duration >= playlist.window_size * DurDen

(***************************************************************************)
(* C17: read-only calls (render on the media playlist, render on the       *)
(* registry, get_variant) that run in several threads, interleaved         *)
(* statement by statement while no mutating call runs, leave the state of  *)
(* the playlist and of the registry as it was, and each returns what the   *)
(* same call running alone returns.                                        *)
(***************************************************************************)
C17_Step ==
  (readers' # readers)
    => UNCHANGED <<playlist, freed, refcount, variants, playlist_str, destroyed, vfreed>>

C17_Result ==
  \A t \in Readers :
    readers[t].pc = "done"
      => /\ readers[t].op = "render" => readers[t].text = gst_m3u8_playlist_render(playlist)
         /\ readers[t].op = "variant_render" => readers[t].text \in gst_m3u8_variant_playlist_render(playlist_str)
         /\ readers[t].op = "get_variant" => readers[t].found = gst_m3u8_variant_playlist_get_variant(variants, readers[t].name)

C17_ReadersIndependent == [][C17_Step]_vars /\ []C17_Result

(* One render has returned while another, begun before that, is half way   *)
(* through the entries.                                                    *)
C17_Witness ==
  \E t, u \in Readers :
    /\ t # u
    /\ readers[t].pc = "done" /\ readers[t].op = "render"
    /\ readers[u].pc = "entries" /\ readers[u].op = "render" /\ readers[u].i = 2
    /\ Len(playlist.entries) >= 2
    /\ playlist_str # NULL

(***************************************************************************)
(* C21: add_entry always terminates.  With window_size > 0 and entries of  *)
(* non-negative duration the eviction loop never pops from an empty queue  *)
(* (whose total is 0 < window_size), pops at most as many entries as the   *)
(* queue held when the call began, and every call that has begun returns.  *)
(***************************************************************************)
C21_Bounded ==
  /\ call.pc # "crashed"
  /\ call.pops <= call.length
  /\ call.pc = "pop" => playlist.entries # <<>>
  /\ call.pc # "idle" => Len(playlist.entries) = call.length - call.pops

C21_Terminates == []C21_Bounded /\ (call.pc # "idle" ~> call.pc = "idle")

(* The loop has popped every entry of a queue of several and has stopped   *)
(* at the test of the empty queue.                                         *)
C21_Witness ==
  /\ call.pc = "push"
  /\ playlist.window_size > 0
  /\ call.length >= 2
  /\ call.pops = call.length
  /\ playlist.entries = <<>>

(***************************************************************************)
(* C22: render on the registry is well defined in every reachable state,   *)
(* a freshly created registry included: it returns the cached master text, *)
(* which is the header followed by one stanza per registered variant (the  *)
(* header alone when none is registered), and never reads an absent cache. *)
(***************************************************************************)
C22_RenderDefined ==
  vlast.op = "render"
    => /\ playlist_str # NULL
       /\ vlast.text = playlist_str
       /\ OneStanzaEach(vlast.text, Range(variants))

(***************************************************************************)
(* C23 as stated: whatever index values the caller passes to add_entry,    *)
(* sequence_number >= entries.length, so that the media sequence           *)
(* sequence_number - entries.length never wraps around below zero.         *)
(***************************************************************************)
C23_NeverWraps ==
  ~freed => /\ playlist.sequence_number >= Len(playlist.entries)
            /\ MediaSequence(playlist) >= 0

(* C23 amended: while every accepted call has passed as index the number   *)
(* of entries accepted before it, sequence_number is the number of         *)
(* accepted entries, which is at least entries.length, and the media       *)
(* sequence a render prints is not negative.                               *)
C23_InOrderNeverWraps ==
  (~freed /\ inorder)
    => /\ playlist.sequence_number = nadded
       /\ playlist.sequence_number >= Len(playlist.entries)
       /\ MediaSequence(playlist) >= 0
       /\ last.op = "render" =>
            last.text = PlaylistText(playlist.version, playlist.allow_cache,
                                     nadded - Len(playlist.entries), WholeMax(playlist.entries),
                                     RenderEntries(playlist.entries, playlist.version), playlist.end_list)

(* A render of a queue that still holds every entry added, in order. *)
C23_Witness ==
  /\ last.op = "render"
  /\ inorder
  /\ nadded >= 2
  /\ Len(playlist.entries) = playlist.sequence_number

(***************************************************************************)
(* C24: remove_variant never changes the set of registered variants,      *)
(* whatever the name and the state of the registry: a playlist that        *)
(* add_variant has registered under a name is what get_variant returns for *)
(* that name in every later state until the registry is destroyed, and no  *)
(* contained playlist is destroyed before then.                            *)
(***************************************************************************)
C24_Step ==
  /\ vlast'.op = "remove_variant" => (variants' = variants /\ destroyed' = destroyed)
  /\ ~vfreed' =>
       \A name \in VariantNames :
         g_hash_table_lookup(variants, name) # NullPlaylist
           => g_hash_table_lookup(variants', name) = g_hash_table_lookup(variants, name)
  /\ (vlast'.op = "add_variant" /\ vlast'.ret) => g_hash_table_lookup(variants', vlast'.name) = vlast'.arg
  /\ (vlast'.op = "get_variant" /\ g_hash_table_lookup(variants, vlast'.name) # NullPlaylist)
       => vlast'.found = g_hash_table_lookup(variants, vlast'.name)
  /\ destroyed' # destroyed => vlast'.op = "free"

C24_RemoveKeepsSet == [][C24_Step]_vars

(* remove_variant has just been called with a registered name. *)
C24_Witness ==
  /\ vlast.op = "remove_variant"
  /\ ~vfreed
  /\ Len(variants) >= 2
  /\ g_hash_table_lookup(variants, vlast.name) # NullPlaylist
  /\ destroyed = {}

====
